---- MODULE Spec2Model ----
(***************************************************************************)
(* Historical-Monuments backend: the gallery routes (galleryRoute.js, kept  *)
(* as src/unnamed/part_003) and the public read routes (publicRoute.js);    *)
(* frontend: the monument detail page (Placedetails, src/unnamed/part_000). *)
(*                                                                          *)
(* Every route handler is an async function.  Between two awaits a handler  *)
(* runs without interruption, so one action of the model is one awaited     *)
(* call (its effect on the database or on the bucket, or its failure)       *)
(* followed by the synchronous code up to the next await or the response.   *)
(* Several handlers may be in flight at once; they interleave at awaits.    *)
(***************************************************************************)
EXTENDS Integers, Sequences, FiniteSets, TLC

(* ------------------------------ bounds -------------------------------- *)
NumReq == 2
MaxRecords == 2
NumRand == 2
NumBytes == 1
NumTitles == 2
NumMonuments == 2
MaxRequests == 3
MaxMonuments == 5
MaxTime == 5
NumOwned == 2
NumUsers == 2
MaxLocLen == 4
NumPlaces == 3
MaxNavigations == 2

(* ------------------------- program constants -------------------------- *)
RandBase == 1000000
Latest == 3

(* ------------------------------ domains ------------------------------- *)
Reqs == 1..NumReq
Ids == 1..MaxRecords
MonumentIds == 1..NumMonuments
\* request.body.imgTitle: "" stands for every falsy value (absent or empty)
NoTitle == ""
TitleOf(n) == IF n = 1 THEN "t1" ELSE IF n = 2 THEN "t2"
              ELSE IF n = 3 THEN "t3" ELSE "t4"
TitleVals == {TitleOf(n) : n \in 1..NumTitles}
\* a mimetype is <<type, subtype>>, an originalname its dot-separated parts
Mimetypes == {<<"video", "mp4">>, <<"image", "png">>}
RawBytes == {<<"raw", b>> : b \in 1..NumBytes}
OrigNames == {<<"a", "b", "png">>}
Files == [mimetype : Mimetypes, originalname : OrigNames, buffer : RawBytes]
\* request.file: <<>> when no file was uploaded, <<f>> otherwise
NoFile == <<>>
RandomNumbers == RandBase..(RandBase + NumRand - 1)

\* what console.error(error.message) logs in the catch block
ErrNone == ""
ErrCompress == "Error compressing file"
ErrS3 == "s3.send rejected"
ErrDb == "database call rejected"
ErrSign == "getSignedUrl rejected"
\* the TypeError messages of monument.user and user.name on null
ErrNullMonument == "Cannot read properties of null (reading 'user')"
ErrNullUser == "Cannot read properties of null (reading 'name')"

VARIABLES
    gallery,    \* the galleries collection: _id -> document
    nextId,     \* the next _id the database hands out; ids are never reused
    s3,         \* the bucket: Key -> Body
    req,        \* the handlers in flight: their request and their locals
    resp,       \* the last response sent, with the request it answers
    keyReused,  \* some generated file name was a key already in use
    started,    \* requests received so far
    monuments,  \* the monuments collection: _id -> document
    latest3,    \* the last response of GET /public/latest3/
    users,      \* the users collection: _id -> document
    getOne,     \* the handler of GET /public/:id and its response
    placeId,        \* Placedetails: useParams().placeId
    combinedData,   \* Placedetails: useState(null), <<>> for null
    galleryImages,  \* Placedetails: useState([])
    loading,        \* Placedetails: useState(true)
    requests,       \* the axios requests of the page, in the order issued
    navigations,    \* how many times the route parameter has changed
    view            \* what the last render of the page put on screen

galleryVars == <<gallery, nextId, s3, req, resp, keyReused, started>>
publicVars == <<monuments, latest3>>
getOneVars == <<users, getOne>>
pageVars == <<placeId, combinedData, galleryImages, loading, requests, navigations, view>>
vars == <<galleryVars, publicVars, getOneVars, pageVars>>

(* --------------------------- pure functions --------------------------- *)
\* file.mimetype.startsWith("video")
StartsWithVideo(mimetype) == mimetype[1] = "video"

\* file.originalname.split(".")[0]
Stem(originalname) == originalname[1]

\* sharp(buffer).jpeg({ quality: 30 }).toBuffer(): a lossy re-encoding
SharpJpeg(buffer) == <<"jpeg", buffer[2]>>

CompressedFileName(file, randomNumber) ==
    IF StartsWithVideo(file.mimetype)
    THEN <<Stem(file.originalname), randomNumber, "mp4">>
    ELSE <<Stem(file.originalname), randomNumber, "jpg">>

\* faulty variant: the video branch re-encodes too
CompressedFile_AlwaysReencodes(file) == SharpJpeg(file.buffer)

CompressedFile(file) ==
    IF StartsWithVideo(file.mimetype) THEN file.buffer ELSE SharpJpeg(file.buffer)

\* Gallery.findById(id): <<>> for null, <<doc>> for a document
FindById(id) == IF id \in DOMAIN gallery THEN <<gallery[id]>> ELSE <<>>

\* the bucket after PutObjectCommand / DeleteObjectCommand
PutObject(bucket, key, body) ==
    [k \in DOMAIN bucket \cup {key} |-> IF k = key THEN body ELSE bucket[k]]

DeleteObject(bucket, key) ==
    [k \in DOMAIN bucket \ {key} |-> bucket[k]]

(* ------------------------------ requests ------------------------------ *)
IdleReq ==
    [op |-> "none", pc |-> "idle", id |-> 0, monumentId |-> 0,
     imgTitle |-> NoTitle, file |-> NoFile, fileName |-> <<>>, buffer |-> <<>>,
     galleryItem |-> <<>>, oldImageKey |-> <<>>, dirty |-> {}]

NoResp ==
    [op |-> "none", status |-> 0, error |-> ErrNone, id |-> 0,
     imgTitle |-> NoTitle, file |-> NoFile, fileName |-> <<>>, oldImageKey |-> <<>>]

\* no response of GET /public/latest3/ yet
NoLatest == [status |-> 0, body |-> <<>>]

\* GET /public/:id: no request yet
NoGetOne ==
    [pc |-> "idle", id |-> 0, monument |-> <<>>, status |-> 0, error |-> ErrNone,
     body |-> <<>>]

\* no request of GET /public/:id, an empty users collection
QuietGetOne == users = << >> /\ getOne = NoGetOne

\* Placedetails: nothing rendered yet
NoView == [rendered |-> FALSE, map |-> <<>>, button |-> FALSE]

\* Placedetails is not mounted
QuietPage ==
    /\ placeId = 0
    /\ combinedData = <<>>
    /\ galleryImages = <<>>
    /\ loading = TRUE
    /\ requests = <<>>
    /\ navigations = 0
    /\ view = NoView

Free(q) == req[q].pc = "idle"

\* response.status(code)... for the request r
ResponseOf(r, code, error) ==
    [op |-> r.op, status |-> code, error |-> error, id |-> r.id,
     imgTitle |-> r.imgTitle, file |-> r.file,
     fileName |-> r.fileName, oldImageKey |-> r.oldImageKey]

\* return response.status(code)...: the handler of q ends
Respond(q, code, error) ==
    /\ resp' = ResponseOf(req[q], code, error)
    /\ req' = [req EXCEPT ![q] = IdleReq]

\* the keys some document, object or running handler refers to
KeysInUse ==
    DOMAIN s3 \cup {gallery[i].image : i \in DOMAIN gallery}
      \cup {req[q].fileName : q \in Reqs} \cup {req[q].oldImageKey : q \in Reqs}
      \cup {req[q].galleryItem[1].image : q \in {x \in Reqs : req[x].galleryItem # <<>>}}

Init ==
    /\ gallery = << >>
    /\ nextId = 1
    /\ s3 = << >>
    /\ req = [q \in Reqs |-> IdleReq]
    /\ resp = NoResp
    /\ keyReused = FALSE
    /\ started = 0
    /\ monuments = << >>
    /\ latest3 = NoLatest
    /\ QuietGetOne
    /\ QuietPage

(* --------------------- POST /gallery/:monumentId ---------------------- *)
\* faulty variant: && where the handler has ||
PostGallery_BothMissing(q, monumentId, imgTitle, file) ==
    /\ Free(q)
    /\ started < MaxRequests
    /\ started' = started + 1
    /\ LET r == [IdleReq EXCEPT !.op = "post", !.monumentId = monumentId,
                                !.imgTitle = imgTitle, !.file = file]
       IN  IF imgTitle = NoTitle /\ file = NoFile
           THEN /\ resp' = ResponseOf(r, 400, ErrNone)
                /\ UNCHANGED req
           ELSE /\ req' = [req EXCEPT ![q] = [r EXCEPT !.pc = "compress"]]
                /\ UNCHANGED resp
    /\ UNCHANGED <<gallery, nextId, s3, keyReused, publicVars, getOneVars, pageVars>>

\* the request arrives; the check of the required fields is synchronous
PostGallery(q, monumentId, imgTitle, file) ==
    /\ Free(q)
    /\ started < MaxRequests
    /\ started' = started + 1
    /\ LET r == [IdleReq EXCEPT !.op = "post", !.monumentId = monumentId,
                                !.imgTitle = imgTitle, !.file = file]
       IN  IF imgTitle = NoTitle \/ file = NoFile
           THEN /\ resp' = ResponseOf(r, 400, ErrNone)
                /\ UNCHANGED req
           ELSE /\ req' = [req EXCEPT ![q] = [r EXCEPT !.pc = "compress"]]
                /\ UNCHANGED resp
    /\ UNCHANGED <<gallery, nextId, s3, keyReused, publicVars, getOneVars, pageVars>>

\* await compressAndSaveFile(request.file), in POST and in PUT
CompressAndSaveFile(q) ==
    /\ req[q].pc = "compress"
    /\ LET file == req[q].file[1]
       IN  \/ \E randomNumber \in RandomNumbers :
                /\ req' = [req EXCEPT
                             ![q].fileName = CompressedFileName(file, randomNumber),
                             ![q].buffer = CompressedFile(file),
                             ![q].pc = "put"]
                /\ keyReused' = (keyReused \/
                                 CompressedFileName(file, randomNumber) \in KeysInUse)
                /\ UNCHANGED resp
           \/ /\ ~StartsWithVideo(file.mimetype)   \* sharp rejects the input
              /\ Respond(q, 500, ErrCompress)
              /\ UNCHANGED keyReused
    /\ UNCHANGED <<gallery, nextId, s3, started, publicVars, getOneVars, pageVars>>

\* faulty variant: a rejected storage write is swallowed
PostPut_IgnoresFailure(q) ==
    /\ req[q].op = "post"
    /\ req[q].pc = "put"
    /\ \/ /\ s3' = PutObject(s3, req[q].fileName, req[q].buffer)
          /\ req' = [req EXCEPT ![q].pc = "create"]
       \/ /\ req' = [req EXCEPT ![q].pc = "create"]
          /\ UNCHANGED s3
    /\ UNCHANGED <<resp, gallery, nextId, keyReused, started, publicVars, getOneVars, pageVars>>

\* await s3.send(new PutObjectCommand(params))
PostPut(q) ==
    /\ req[q].op = "post"
    /\ req[q].pc = "put"
    /\ \/ /\ s3' = PutObject(s3, req[q].fileName, req[q].buffer)
          /\ req' = [req EXCEPT ![q].pc = "create"]
          /\ UNCHANGED resp
       \/ /\ Respond(q, 500, ErrS3)
          /\ UNCHANGED s3
    /\ UNCHANGED <<gallery, nextId, keyReused, started, publicVars, getOneVars, pageVars>>

\* the document Gallery.create(newGalleryItem) stores
NewGalleryItem(r) ==
    [monumentId |-> r.monumentId, imgTitle |-> r.imgTitle, image |-> r.fileName]

\* await Gallery.create(newGalleryItem); response.status(201)
\* (with MaxRecords documents created the database only rejects)
PostCreate(q) ==
    /\ req[q].op = "post"
    /\ req[q].pc = "create"
    /\ \/ /\ nextId <= MaxRecords
          /\ gallery' = [i \in DOMAIN gallery \cup {nextId} |->
                           IF i = nextId THEN NewGalleryItem(req[q]) ELSE gallery[i]]
          /\ nextId' = nextId + 1
          /\ resp' = ResponseOf([req[q] EXCEPT !.id = nextId], 201, ErrNone)
          /\ req' = [req EXCEPT ![q] = IdleReq]
       \/ /\ Respond(q, 500, ErrDb)
          /\ UNCHANGED <<gallery, nextId>>
    /\ UNCHANGED <<s3, keyReused, started, publicVars, getOneVars, pageVars>>

(* -------------------------- GET /gallery/:id -------------------------- *)
GetGallery(q, id) ==
    /\ Free(q)
    /\ started < MaxRequests
    /\ started' = started + 1
    /\ req' = [req EXCEPT ![q] = [IdleReq EXCEPT !.op = "get", !.id = id, !.pc = "find"]]
    /\ UNCHANGED <<gallery, nextId, s3, resp, keyReused, publicVars, getOneVars, pageVars>>

\* faulty variant: the null check is missing
GetFind_NoNullCheck(q) ==
    /\ req[q].op = "get"
    /\ req[q].pc = "find"
    /\ \/ /\ req' = [req EXCEPT ![q].galleryItem = FindById(req[q].id),
                                ![q].pc = "sign"]
          /\ UNCHANGED resp
       \/ Respond(q, 500, ErrDb)
    /\ UNCHANGED <<gallery, nextId, s3, keyReused, started, publicVars, getOneVars, pageVars>>

\* await Gallery.findById(request.params.id)
GetFind(q) ==
    /\ req[q].op = "get"
    /\ req[q].pc = "find"
    /\ \/ IF FindById(req[q].id) = <<>>
          THEN Respond(q, 404, ErrNone)
          ELSE /\ req' = [req EXCEPT ![q].galleryItem = FindById(req[q].id),
                                     ![q].pc = "sign"]
               /\ UNCHANGED resp
       \/ Respond(q, 500, ErrDb)
    /\ UNCHANGED <<gallery, nextId, s3, keyReused, started, publicVars, getOneVars, pageVars>>

\* await getSignedUrl(s3, command, { expiresIn: 3600 }): signs locally, reads no object
GetSign(q) ==
    /\ req[q].op = "get"
    /\ req[q].pc = "sign"
    /\ \/ Respond(q, 200, ErrNone)
       \/ Respond(q, 500, ErrSign)
    /\ UNCHANGED <<gallery, nextId, s3, keyReused, started, publicVars, getOneVars, pageVars>>

(* -------------------------- PUT /gallery/:id -------------------------- *)
PutGallery(q, id, imgTitle, file) ==
    /\ Free(q)
    /\ started < MaxRequests
    /\ started' = started + 1
    /\ req' = [req EXCEPT ![q] = [IdleReq EXCEPT !.op = "put", !.id = id, !.pc = "find",
                                                 !.imgTitle = imgTitle, !.file = file]]
    /\ UNCHANGED <<gallery, nextId, s3, resp, keyReused, publicVars, getOneVars, pageVars>>

\* if (request.body.imgTitle) galleryItem.imgTitle = request.body.imgTitle;
\* the document marks a path modified only when its value changes
AssignTitle(r) ==
    IF r.imgTitle # NoTitle /\ r.galleryItem[1].imgTitle # r.imgTitle
    THEN [r EXCEPT !.galleryItem = <<[r.galleryItem[1] EXCEPT !.imgTitle = r.imgTitle]>>,
                   !.dirty = r.dirty \cup {"imgTitle"}]
    ELSE r

\* galleryItem.image = fileName
AssignImage(r) ==
    IF r.galleryItem[1].image # r.fileName
    THEN [r EXCEPT !.galleryItem = <<[r.galleryItem[1] EXCEPT !.image = r.fileName]>>,
                   !.dirty = r.dirty \cup {"image"}]
    ELSE r

\* await Gallery.findById(request.params.id); oldImageKey = galleryItem.image
PutFind(q) ==
    /\ req[q].op = "put"
    /\ req[q].pc = "find"
    /\ \/ IF FindById(req[q].id) = <<>>
          THEN Respond(q, 404, ErrNone)
          ELSE LET r == [req[q] EXCEPT !.galleryItem = FindById(req[q].id),
                                       !.oldImageKey = gallery[req[q].id].image]
               IN  /\ IF r.file # NoFile
                      THEN req' = [req EXCEPT ![q] = [r EXCEPT !.pc = "compress"]]
                      ELSE req' = [req EXCEPT ![q] = [AssignTitle(r) EXCEPT !.pc = "save"]]
                   /\ UNCHANGED resp
       \/ Respond(q, 500, ErrDb)
    /\ UNCHANGED <<gallery, nextId, s3, keyReused, started, publicVars, getOneVars, pageVars>>

\* faulty variant: a rejected storage write is swallowed
PutPut_IgnoresFailure(q) ==
    /\ req[q].op = "put"
    /\ req[q].pc = "put"
    /\ \/ /\ s3' = PutObject(s3, req[q].fileName, req[q].buffer)
          /\ req' = [req EXCEPT ![q] = [AssignImage(@) EXCEPT !.pc = "deleteOld"]]
       \/ /\ req' = [req EXCEPT ![q] = [AssignImage(@) EXCEPT !.pc = "deleteOld"]]
          /\ UNCHANGED s3
    /\ UNCHANGED <<resp, gallery, nextId, keyReused, started, publicVars, getOneVars, pageVars>>

\* await s3.send(new PutObjectCommand(params)); galleryItem.image = fileName
PutPut(q) ==
    /\ req[q].op = "put"
    /\ req[q].pc = "put"
    /\ \/ /\ s3' = PutObject(s3, req[q].fileName, req[q].buffer)
          /\ req' = [req EXCEPT ![q] = [AssignImage(@) EXCEPT !.pc = "deleteOld"]]
          /\ UNCHANGED resp
       \/ /\ Respond(q, 500, ErrS3)
          /\ UNCHANGED s3
    /\ UNCHANGED <<gallery, nextId, keyReused, started, publicVars, getOneVars, pageVars>>

\* faulty variant: deletes Key: fileName, the object just written
PutDeleteOld_DeletesNew(q) ==
    /\ req[q].op = "put"
    /\ req[q].pc = "deleteOld"
    /\ \/ /\ s3' = DeleteObject(s3, req[q].fileName)
          /\ req' = [req EXCEPT ![q] = [AssignTitle(@) EXCEPT !.pc = "save"]]
          /\ UNCHANGED resp
       \/ /\ Respond(q, 500, ErrS3)
          /\ UNCHANGED s3
    /\ UNCHANGED <<gallery, nextId, keyReused, started, publicVars, getOneVars, pageVars>>

\* await s3.send(new DeleteObjectCommand(deleteOldParams)), then the title
PutDeleteOld(q) ==
    /\ req[q].op = "put"
    /\ req[q].pc = "deleteOld"
    /\ \/ /\ s3' = DeleteObject(s3, req[q].oldImageKey)
          /\ req' = [req EXCEPT ![q] = [AssignTitle(@) EXCEPT !.pc = "save"]]
          /\ UNCHANGED resp
       \/ /\ Respond(q, 500, ErrS3)
          /\ UNCHANGED s3
    /\ UNCHANGED <<gallery, nextId, keyReused, started, publicVars, getOneVars, pageVars>>

\* what galleryItem.save() writes: the modified paths of the document
Saved(doc, item, dirty) ==
    [doc EXCEPT !.imgTitle = IF "imgTitle" \in dirty THEN item.imgTitle ELSE @,
                !.image = IF "image" \in dirty THEN item.image ELSE @]

\* await galleryItem.save(): rejects when the document is gone; response 200
PutSave(q) ==
    /\ req[q].op = "put"
    /\ req[q].pc = "save"
    /\ \/ /\ req[q].id \in DOMAIN gallery
          /\ gallery' = [gallery EXCEPT ![req[q].id] =
                            Saved(@, req[q].galleryItem[1], req[q].dirty)]
          /\ Respond(q, 200, ErrNone)
       \/ /\ Respond(q, 500, ErrDb)
          /\ UNCHANGED gallery
    /\ UNCHANGED <<nextId, s3, keyReused, started, publicVars, getOneVars, pageVars>>

(* ------------------------- DELETE /gallery/:id ------------------------ *)
DeleteGallery(q, id) ==
    /\ Free(q)
    /\ started < MaxRequests
    /\ started' = started + 1
    /\ req' = [req EXCEPT ![q] = [IdleReq EXCEPT !.op = "delete", !.id = id,
                                                 !.pc = "findDelete"]]
    /\ UNCHANGED <<gallery, nextId, s3, resp, keyReused, publicVars, getOneVars, pageVars>>

\* faulty variant: findById, so the document stays
DeleteFindByIdAndDelete_FindOnly(q) ==
    /\ req[q].op = "delete"
    /\ req[q].pc = "findDelete"
    /\ \/ IF FindById(req[q].id) = <<>>
          THEN Respond(q, 404, ErrNone)
          ELSE /\ req' = [req EXCEPT ![q].galleryItem = FindById(req[q].id),
                                     ![q].pc = "deleteObject"]
               /\ UNCHANGED resp
       \/ Respond(q, 500, ErrDb)
    /\ UNCHANGED <<gallery, nextId, s3, keyReused, started, publicVars, getOneVars, pageVars>>

\* await Gallery.findByIdAndDelete(request.params.id): one atomic database call
DeleteFindByIdAndDelete(q) ==
    /\ req[q].op = "delete"
    /\ req[q].pc = "findDelete"
    /\ \/ IF FindById(req[q].id) = <<>>
          THEN /\ Respond(q, 404, ErrNone)
               /\ UNCHANGED gallery
          ELSE /\ gallery' = [i \in DOMAIN gallery \ {req[q].id} |-> gallery[i]]
               /\ req' = [req EXCEPT ![q].galleryItem = FindById(req[q].id),
                                     ![q].pc = "deleteObject"]
               /\ UNCHANGED resp
       \/ /\ Respond(q, 500, ErrDb)
          /\ UNCHANGED gallery
    /\ UNCHANGED <<nextId, s3, keyReused, started, publicVars, getOneVars, pageVars>>

\* await s3.send(new DeleteObjectCommand(deleteParams)); response 200
DeleteObjectStep(q) ==
    /\ req[q].op = "delete"
    /\ req[q].pc = "deleteObject"
    /\ \/ /\ s3' = DeleteObject(s3, req[q].galleryItem[1].image)
          /\ Respond(q, 200, ErrNone)
       \/ /\ Respond(q, 500, ErrS3)
          /\ UNCHANGED s3
    /\ UNCHANGED <<gallery, nextId, keyReused, started, publicVars, getOneVars, pageVars>>

(* ------------------------ GET /public/latest3/ ------------------------ *)
\* faulty variant: Monument.find({}), no filter
Find_NoFilter(status) == DOMAIN monuments

\* Monument.find({ status: 1 }): the _ids of the matching documents
Find(status) == {i \in DOMAIN monuments : monuments[i].status = status}

\* .sort({ createdAt: -1 }): every order of S with createdAt descending; the
\* database may return documents of equal createdAt in any order
RECURSIVE SortCreatedAtDesc(_)
SortCreatedAtDesc(S) ==
    IF S = {} THEN {<<>>}
    ELSE LET newest == {m \in S : \A n \in S : monuments[n].createdAt <= monuments[m].createdAt}
         IN  UNION {{<<m>> \o rest : rest \in SortCreatedAtDesc(S \ {m})} : m \in newest}

\* .limit(n)
Limit(docs, n) == SubSeq(docs, 1, IF Len(docs) < n THEN Len(docs) ELSE n)

\* the documents the query of the handler may return
Latest3Query == {Limit(docs, Latest) : docs \in SortCreatedAtDesc(Find(1))}

GetLatest3 ==
    /\ latest3 = NoLatest
    /\ \/ \E docs \in Latest3Query : latest3' = [status |-> 200, body |-> docs]
       \/ latest3' = [status |-> 500, body |-> <<>>]
    /\ UNCHANGED <<monuments, galleryVars, getOneVars, pageVars>>

\* every content of the monuments collection, the _ids in order of creation
MonumentDocs == [status : {0, 1}, createdAt : 1..MaxTime]
Stores ==
    UNION {{m \in [1..n -> MonumentDocs] :
              \A i \in 1..n, j \in 1..n : i < j => m[i].createdAt <= m[j].createdAt}
           : n \in 0..MaxMonuments}

InitPublic ==
    /\ gallery = << >>
    /\ nextId = 1
    /\ s3 = << >>
    /\ req = [q \in Reqs |-> IdleReq]
    /\ resp = NoResp
    /\ keyReused = FALSE
    /\ started = 0
    /\ monuments \in Stores
    /\ latest3 = NoLatest
    /\ QuietGetOne
    /\ QuietPage

NextPublic == GetLatest3

SpecPublic == InitPublic /\ [][NextPublic]_vars

(* --------------------------- GET /public/:id -------------------------- *)
\* the request arrives: const { id } = request.params; Monument.findById(id)
GetOne(id) ==
    /\ getOne.pc = "idle"
    /\ getOne' = [NoGetOne EXCEPT !.pc = "findMonument", !.id = id]
    /\ UNCHANGED <<users, monuments, latest3, galleryVars, pageVars>>

\* Monument.findById(id): <<>> for null, <<doc>> for a document
FindMonumentById(id) == IF id \in DOMAIN monuments THEN <<monuments[id]>> ELSE <<>>

\* User.findById(ref)
FindUserById(ref) == IF ref \in DOMAIN users THEN <<users[ref]>> ELSE <<>>

\* response.status(code) of GET /public/:id
GetOneRespond(code, error, body) ==
    getOne' = [getOne EXCEPT !.pc = "done", !.status = code, !.error = error,
                             !.body = body]

\* const monument = await monumentPromise; then monument.user is read, which
\* throws on null and lands in the catch block
GetOneFindMonument ==
    /\ getOne.pc = "findMonument"
    /\ \/ LET monument == FindMonumentById(getOne.id)
          IN  IF monument = <<>>
              THEN GetOneRespond(500, ErrNullMonument, <<>>)
              ELSE getOne' = [getOne EXCEPT !.monument = monument, !.pc = "findUser"]
       \/ GetOneRespond(500, ErrDb, <<>>)
    /\ UNCHANGED <<users, monuments, latest3, galleryVars, pageVars>>

\* const user = await User.findById(monument.user); combinedData; user.name
\* throws on null
GetOneFindUser ==
    /\ getOne.pc = "findUser"
    /\ \/ LET user == FindUserById(getOne.monument[1].user)
          IN  IF user = <<>>
              THEN GetOneRespond(500, ErrNullUser, <<>>)
              ELSE GetOneRespond(200, ErrNone,
                       <<[monument |-> getOne.monument[1], userName |-> user[1].name]>>)
       \/ GetOneRespond(500, ErrDb, <<>>)
    /\ UNCHANGED <<users, monuments, latest3, galleryVars, pageVars>>

\* every content of the two collections: a monument names its owner, who may
\* be gone from the users collection
OwnedIds == 1..NumOwned
UserIds == 1..NumUsers
UserNames == {"asha", "ravi"}
OwnedMonumentDocs == [status : {0, 1}, createdAt : {1}, user : UserIds]
OwnedStores == UNION {[S -> OwnedMonumentDocs] : S \in SUBSET OwnedIds}
UserStores == UNION {[S -> [name : UserNames]] : S \in SUBSET UserIds}

InitGetOne ==
    /\ gallery = << >>
    /\ nextId = 1
    /\ s3 = << >>
    /\ req = [q \in Reqs |-> IdleReq]
    /\ resp = NoResp
    /\ keyReused = FALSE
    /\ started = 0
    /\ monuments \in OwnedStores
    /\ latest3 = NoLatest
    /\ users \in UserStores
    /\ getOne = NoGetOne
    /\ QuietPage

NextGetOne ==
    \/ \E id \in OwnedIds : GetOne(id)
    \/ GetOneFindMonument
    \/ GetOneFindUser

SpecGetOne == InitGetOne /\ [][NextGetOne]_vars

(* ------------------- Placedetails: the map of the page ----------------- *)
\* JavaScript strings are sequences of one-character strings
Chars == {"1", ".", ",", "-", " ", "x"}
Digits == {"1"}

\* undefined, and what String(undefined) gives parseFloat to read
Undefined == <<"undefined">>
NaN == <<"NaN">>

\* String.prototype.split(",")
RECURSIVE Split(_)
Split(s) ==
    IF \A i \in 1..Len(s) : s[i] # ","
    THEN <<s>>
    ELSE LET i == CHOOSE k \in 1..Len(s) : s[k] = "," /\ \A j \in 1..(k - 1) : s[j] # ","
         IN  <<SubSeq(s, 1, i - 1)>> \o Split(SubSeq(s, i + 1, Len(s)))

\* array[k] of JavaScript, indices from 0, undefined past the end
At(a, k) == IF k + 1 <= Len(a) THEN a[k + 1] ELSE Undefined

\* the length of the longest prefix of s made of digits
RECURSIVE DigitRun(_)
DigitRun(s) == IF s # <<>> /\ Head(s) \in Digits THEN 1 + DigitRun(Tail(s)) ELSE 0

\* leading white space dropped
RECURSIVE TrimStart(_)
TrimStart(s) == IF s # <<>> /\ Head(s) = " " THEN TrimStart(Tail(s)) ELSE s

\* parseFloat: white space is skipped, then the longest prefix that is a
\* decimal literal is read and whatever follows it is ignored; NaN when no
\* such prefix exists. The result is given as the literal that was read.
ParseFloat(s) ==
    LET t == TrimStart(s)
        sign == IF t # <<>> /\ Head(t) = "-" THEN 1 ELSE 0
        u == SubSeq(t, sign + 1, Len(t))
        int == DigitRun(u)
        v == SubSeq(u, int + 1, Len(u))
        frac == IF v # <<>> /\ Head(v) = "." THEN DigitRun(Tail(v)) ELSE 0
        dot == IF v # <<>> /\ Head(v) = "." /\ (int > 0 \/ frac > 0) THEN 1 ELSE 0
    IN  IF int + frac = 0 THEN NaN ELSE SubSeq(t, 1, sign + int + dot + frac)

IsNaN(v) == v = NaN

\* const isValidLatLong = (location) => ...
IsValidLatLong(location) ==
    LET lat == At(Split(location), 0)
        long == At(Split(location), 1)
    IN  ~IsNaN(ParseFloat(lat)) /\ ~IsNaN(ParseFloat(long))

\* truthiness of a string or undefined
Truthy(v) == v # Undefined /\ v # <<>>

\* the MAP section of the page: the Map element when the location passes, and
\* the GOOGLE MAPS button
MapSection(monument) ==
    [rendered |-> TRUE,
     map |-> IF Truthy(monument.location) /\ IsValidLatLong(monument.location)
             THEN <<[latitude |-> At(Split(monument.location), 0),
                     longitude |-> At(Split(monument.location), 1)]>>
             ELSE <<>>,
     button |-> TRUE]

\* a render of the page once loading is over and combinedData is there
Render ==
    /\ ~loading
    /\ combinedData # <<>>
    /\ view' = MapSection(combinedData[1].monument)
    /\ UNCHANGED <<placeId, combinedData, galleryImages, loading, requests, navigations,
                   galleryVars, publicVars, getOneVars>>

\* every location string of up to MaxLocLen characters, and a missing location
Strings == UNION {[1..n -> Chars] : n \in 0..MaxLocLen}
Locations == Strings \cup {Undefined}

InitMap ==
    /\ gallery = << >>
    /\ nextId = 1
    /\ s3 = << >>
    /\ req = [q \in Reqs |-> IdleReq]
    /\ resp = NoResp
    /\ keyReused = FALSE
    /\ started = 0
    /\ monuments = << >>
    /\ latest3 = NoLatest
    /\ QuietGetOne
    /\ placeId = 1
    /\ \E l \in Locations : combinedData = <<[monument |-> [_id |-> 1, location |-> l]]>>
    /\ galleryImages = <<>>
    /\ loading = FALSE
    /\ requests = <<>>
    /\ navigations = 0
    /\ view = NoView

NextMap == Render

SpecMap == InitMap /\ [][NextMap]_vars

(* ---------------- Placedetails: fetching the monument ------------------ *)
Places == 1..NumPlaces

\* axios.get(url): a request that has not settled yet
Get(kind, p) == [kind |-> kind, placeId |-> p, state |-> "pending"]

\* response.data of GET public/:id and of GET public/monument/:id for place p
CombinedDataOf(p) == [monument |-> [_id |-> p, location |-> Undefined]]
GalleryOf(p) == <<[monumentId |-> p]>>

\* the two effects as they run after the first render: axios.get of
\* public/${placeId}, and setLoading(true) with axios.get of
\* public/monument/${placeId}
InitPlace ==
    /\ gallery = << >>
    /\ nextId = 1
    /\ s3 = << >>
    /\ req = [q \in Reqs |-> IdleReq]
    /\ resp = NoResp
    /\ keyReused = FALSE
    /\ started = 0
    /\ monuments = << >>
    /\ latest3 = NoLatest
    /\ QuietGetOne
    /\ placeId \in Places
    /\ combinedData = <<>>
    /\ galleryImages = <<>>
    /\ loading = TRUE
    /\ requests = <<Get("combined", placeId), Get("gallery", placeId)>>
    /\ navigations = 0
    /\ view = NoView

\* the route parameter changes while the page stays mounted: of the two
\* effects only the one with [placeId] as dependencies runs again
Navigate(p) ==
    /\ placeId # 0
    /\ navigations < MaxNavigations
    /\ p # placeId
    /\ placeId' = p
    /\ requests' = Append(requests, Get("combined", p))
    /\ navigations' = navigations + 1
    /\ UNCHANGED <<combinedData, galleryImages, loading, view,
                   galleryVars, publicVars, getOneVars>>

\* .then((response) => setCombinedData(response.data))
CombinedThen(i) ==
    /\ i \in DOMAIN requests
    /\ requests[i].kind = "combined" /\ requests[i].state = "pending"
    /\ combinedData' = <<CombinedDataOf(requests[i].placeId)>>
    /\ requests' = [requests EXCEPT ![i].state = "fulfilled"]
    /\ UNCHANGED <<placeId, galleryImages, loading, navigations, view,
                   galleryVars, publicVars, getOneVars>>

\* .catch((error) => console.error(...))
CombinedCatch(i) ==
    /\ i \in DOMAIN requests
    /\ requests[i].kind = "combined" /\ requests[i].state = "pending"
    /\ requests' = [requests EXCEPT ![i].state = "rejected"]
    /\ UNCHANGED <<placeId, combinedData, galleryImages, loading, navigations, view,
                   galleryVars, publicVars, getOneVars>>

\* .then((response) => setGalleryImages(response.data)).finally(setLoading(false))
GalleryThen(i) ==
    /\ i \in DOMAIN requests
    /\ requests[i].kind = "gallery" /\ requests[i].state = "pending"
    /\ galleryImages' = GalleryOf(requests[i].placeId)
    /\ loading' = FALSE
    /\ requests' = [requests EXCEPT ![i].state = "fulfilled"]
    /\ UNCHANGED <<placeId, combinedData, navigations, view,
                   galleryVars, publicVars, getOneVars>>

\* .catch((error) => console.error(...)).finally(setLoading(false))
GalleryCatch(i) ==
    /\ i \in DOMAIN requests
    /\ requests[i].kind = "gallery" /\ requests[i].state = "pending"
    /\ loading' = FALSE
    /\ requests' = [requests EXCEPT ![i].state = "rejected"]
    /\ UNCHANGED <<placeId, combinedData, galleryImages, navigations, view,
                   galleryVars, publicVars, getOneVars>>

NextPlace ==
    \/ \E p \in Places : Navigate(p)
    \/ \E i \in 1..(MaxNavigations + 2) : CombinedThen(i)
    \/ \E i \in 1..(MaxNavigations + 2) : CombinedCatch(i)
    \/ \E i \in 1..(MaxNavigations + 2) : GalleryThen(i)
    \/ \E i \in 1..(MaxNavigations + 2) : GalleryCatch(i)

SpecPlace == InitPlace /\ [][NextPlace]_vars

\* the values a request can carry
TitleInputs == TitleVals \cup {NoTitle}
FileInputs == {NoFile} \cup {<<x>> : x \in Files}

Next ==
    \/ \E q \in Reqs, m \in MonumentIds, t \in TitleInputs, f \in FileInputs :
          PostGallery(q, m, t, f)
    \/ \E q \in Reqs : CompressAndSaveFile(q)
    \/ \E q \in Reqs : PostPut(q)
    \/ \E q \in Reqs : PostCreate(q)
    \/ \E q \in Reqs, id \in Ids : GetGallery(q, id)
    \/ \E q \in Reqs : GetFind(q)
    \/ \E q \in Reqs : GetSign(q)
    \/ \E q \in Reqs, id \in Ids, t \in TitleInputs, f \in FileInputs :
          PutGallery(q, id, t, f)
    \/ \E q \in Reqs : PutFind(q)
    \/ \E q \in Reqs : PutPut(q)
    \/ \E q \in Reqs : PutDeleteOld(q)
    \/ \E q \in Reqs : PutSave(q)
    \/ \E q \in Reqs, id \in Ids : DeleteGallery(q, id)
    \/ \E q \in Reqs : DeleteFindByIdAndDelete(q)
    \/ \E q \in Reqs : DeleteObjectStep(q)

Spec == Init /\ [][Next]_vars

(* ====================================================================== *)
(* Properties                                                             *)
(* ====================================================================== *)
\* the handler of q takes this step
StepOf(q) == req'[q] # req[q]

\* the handler of q ends in this step (it was running and has responded)
Ends(q) == req[q].pc # "idle" /\ req'[q].pc = "idle"

\* a request arrives in this step; Arrived is that request
Arrives == started' # started
Arrived ==
    IF req' = req
    THEN [op |-> resp'.op, imgTitle |-> resp'.imgTitle, file |-> resp'.file]
    ELSE LET q == CHOOSE x \in Reqs : req'[x] # req[x]
         IN  [op |-> req'[q].op, imgTitle |-> req'[q].imgTitle, file |-> req'[q].file]

\* C1: a POST whose imgTitle or file is missing is answered 400 at once, no
\* handler keeps running for it, and neither the collection nor the bucket changes.
C1_MissingFieldsRejected ==
    [][(Arrives /\ Arrived.op = "post"
          /\ (Arrived.imgTitle = NoTitle \/ Arrived.file = NoFile))
       => /\ req' = req
          /\ resp'.op = "post" /\ resp'.status = 400
          /\ gallery' = gallery /\ nextId' = nextId /\ s3' = s3]_vars

C1_Witness ==
    /\ resp.op = "post" /\ resp.status = 400
    /\ resp.imgTitle # NoTitle /\ resp.file = NoFile
    /\ DOMAIN gallery # {} /\ DOMAIN s3 # {}

\* C2: a POST with title and file whose three awaited steps succeed writes the
\* compressor's output under the generated key (for a video: the uploaded bytes,
\* unchanged; for an image: a jpeg re-encoding) and then creates exactly one
\* document, with the request's monumentId and imgTitle and that key as image.
C2_CreateStoresUpload ==
    [][\A q \in Reqs : req[q].op = "post" =>
         /\ (req[q].pc = "put" /\ req'[q].pc = "create") =>
              LET f == req[q].file[1]
                  key == req'[q].fileName
              IN  /\ key = req[q].fileName
                  /\ key \in DOMAIN s3'
                  /\ StartsWithVideo(f.mimetype) => s3'[key] = f.buffer
                  /\ ~StartsWithVideo(f.mimetype) =>
                        s3'[key][1] = "jpeg" /\ s3'[key] # f.buffer
         /\ (req[q].pc = "create" /\ Ends(q) /\ resp'.status = 201) =>
              /\ DOMAIN gallery' = DOMAIN gallery \cup {resp'.id}
              /\ resp'.id \notin DOMAIN gallery
              /\ \A i \in DOMAIN gallery : gallery'[i] = gallery[i]
              /\ gallery'[resp'.id].monumentId = req[q].monumentId
              /\ gallery'[resp'.id].imgTitle = req[q].imgTitle
              /\ gallery'[resp'.id].image = req[q].fileName
              /\ req[q].imgTitle # NoTitle /\ req[q].file # NoFile]_vars

C2_Witness ==
    /\ resp.op = "post" /\ resp.status = 201
    /\ resp.file # NoFile /\ StartsWithVideo(resp.file[1].mimetype)
    /\ resp.id \in DOMAIN gallery
    /\ gallery[resp.id].image = resp.fileName
    /\ resp.fileName \in DOMAIN s3 /\ s3[resp.fileName] = resp.file[1].buffer

\* C3: when the compression or the storage write of a POST fails, the handler
\* ends with 500 and has created no document; Gallery.create is only reached
\* from a storage write that succeeded, and a POST touches the collection nowhere else.
C3_StorageFailureCreatesNothing ==
    [][\A q \in Reqs : req[q].op = "post" =>
         /\ (req[q].pc \in {"compress", "put"} /\ Ends(q)) =>
              /\ resp'.status = 500
              /\ resp'.error = IF req[q].pc = "compress" THEN ErrCompress ELSE ErrS3
              /\ gallery' = gallery /\ nextId' = nextId /\ s3' = s3
         /\ (req'[q].pc = "create" /\ req[q].pc # "create") =>
              /\ req[q].pc = "put"
              /\ req[q].fileName \in DOMAIN s3'
              /\ s3'[req[q].fileName] = req[q].buffer
         /\ (StepOf(q) /\ gallery' # gallery) => req[q].pc = "create"]_vars

C3_Witness ==
    /\ resp.op = "post" /\ resp.status = 500 /\ resp.error = ErrS3
    /\ DOMAIN gallery = {} /\ nextId = 1

\* C4: every document's image is the key of an object in the bucket.
C4_EveryRecordHasItsObject ==
    \A i \in DOMAIN gallery : gallery[i].image \in DOMAIN s3

\* C5 as stated: a PUT with a file that answers 200 leaves the document with the
\* new key, the new object in the bucket and the previous object gone.
C5_UpdateSwapsObjects ==
    [][\A q \in Reqs :
         (req[q].op = "put" /\ req[q].file # NoFile /\ Ends(q) /\ resp'.status = 200)
         => /\ req[q].id \in DOMAIN gallery'
            /\ gallery'[req[q].id].image = req[q].fileName
            /\ req[q].fileName \in DOMAIN s3'
            /\ req[q].oldImageKey \notin DOMAIN s3']_vars

\* C5 amended: the same, as long as no generated file name was a key already in
\* use (by a document, an object or a running handler) when it was generated.
C5_UpdateSwapsObjectsUnlessKeyReused ==
    [][\A q \in Reqs :
         (req[q].op = "put" /\ req[q].file # NoFile /\ Ends(q) /\ resp'.status = 200
            /\ ~keyReused)
         => /\ req[q].id \in DOMAIN gallery'
            /\ gallery'[req[q].id].image = req[q].fileName
            /\ req[q].fileName \in DOMAIN s3'
            /\ req[q].oldImageKey \notin DOMAIN s3'
            /\ req[q].fileName # req[q].oldImageKey]_vars

C5_Witness ==
    /\ resp.op = "put" /\ resp.status = 200 /\ resp.file # NoFile
    /\ ~keyReused
    /\ resp.id \in DOMAIN gallery /\ gallery[resp.id].image = resp.fileName
    /\ resp.fileName \in DOMAIN s3 /\ resp.oldImageKey \notin DOMAIN s3

\* C6: a PUT deletes the previous object only in the step after its own storage
\* write succeeded; when its compression or its storage write fails it ends with
\* 500 and leaves the bucket and the collection as they were, so the previous
\* object and the document's reference to it are untouched.
C6_OldDeletedOnlyAfterNewWritten ==
    [][\A q \in Reqs : req[q].op = "put" =>
         /\ (req'[q].pc = "deleteOld" /\ req[q].pc # "deleteOld") =>
              /\ req[q].pc = "put"
              /\ req[q].fileName \in DOMAIN s3'
              /\ s3'[req[q].fileName] = req[q].buffer
         /\ (StepOf(q) /\ req[q].oldImageKey \in DOMAIN s3
               /\ req[q].oldImageKey \notin DOMAIN s3') => req[q].pc = "deleteOld"
         /\ (req[q].pc \in {"compress", "put"} /\ Ends(q)) =>
              /\ resp'.status = 500
              /\ s3' = s3 /\ gallery' = gallery
              /\ (req[q].id \in DOMAIN gallery /\ req[q].oldImageKey \in DOMAIN s3) =>
                    /\ req[q].oldImageKey \in DOMAIN s3'
                    /\ gallery'[req[q].id] = gallery[req[q].id]]_vars

C6_Witness ==
    /\ resp.op = "put" /\ resp.status = 500 /\ resp.error = ErrS3
    /\ resp.fileName \notin DOMAIN s3
    /\ resp.id \in DOMAIN gallery /\ gallery[resp.id].image = resp.oldImageKey
    /\ resp.oldImageKey \in DOMAIN s3

\* C7 as stated: the document in the collection carries the new key before the
\* previous object is deleted, so a failed deletion leaves the document on the
\* new object.
C7_RecordUpdatedBeforeOldDeleted ==
    [][\A q \in Reqs :
         (req[q].op = "put" /\ req[q].pc = "deleteOld" /\ StepOf(q)
            /\ req[q].id \in DOMAIN gallery)
         => /\ gallery[req[q].id].image = req[q].fileName
            /\ gallery'[req[q].id].image = req[q].fileName]_vars

\* C8 as stated: DELETE never removes a document whose object is still in the bucket.
C8_ObjectDeletedBeforeRecord ==
    [][\A i \in DOMAIN gallery :
         i \notin DOMAIN gallery' => gallery[i].image \notin DOMAIN s3']_vars

\* C8 amended: DELETE removes the document first, in the one call that looks it
\* up, and leaves the bucket alone in that step; it deletes the object only
\* afterwards, when the document is already gone, and a failure there leaves an
\* object without a document (never a document without its object).
C8_RecordDeletedBeforeObject ==
    [][\A q \in Reqs : req[q].op = "delete" =>
         /\ (req[q].pc = "findDelete" /\ req'[q].pc = "deleteObject") =>
              /\ req[q].id \in DOMAIN gallery
              /\ req[q].id \notin DOMAIN gallery'
              /\ s3' = s3
         /\ (StepOf(q) /\ s3' # s3) =>
              /\ req[q].pc = "deleteObject"
              /\ req[q].id \notin DOMAIN gallery
              /\ gallery' = gallery
         /\ (req[q].pc = "deleteObject" /\ Ends(q) /\ resp'.status = 500) =>
              /\ req[q].id \notin DOMAIN gallery'
              /\ s3' = s3]_vars

C8_Witness ==
    /\ resp.op = "delete" /\ resp.status = 500 /\ resp.error = ErrS3
    /\ resp.id \notin DOMAIN gallery /\ resp.id < nextId
    /\ DOMAIN s3 # {}

\* C9: when the lookup of GET, PUT or DELETE /gallery/:id finds no document (the
\* database call itself does not reject), the handler ends with 404 and changes
\* neither the collection nor the bucket; an id once removed never comes back,
\* so a second DELETE of it is such a case.
C9_AbsentIdIsNotFound ==
    [][/\ \A q \in Reqs :
            (req[q].pc \in {"find", "findDelete"} /\ StepOf(q)
               /\ req[q].id \notin DOMAIN gallery
               /\ ~(Ends(q) /\ resp'.status = 500 /\ resp'.error = ErrDb))
            => /\ Ends(q) /\ resp'.status = 404
               /\ gallery' = gallery /\ nextId' = nextId /\ s3' = s3
       /\ \A i \in Ids :
            (i < nextId /\ i \notin DOMAIN gallery) => i \notin DOMAIN gallery']_vars

C9_Witness ==
    /\ resp.op = "delete" /\ resp.status = 404
    /\ resp.id < nextId /\ resp.id \notin DOMAIN gallery

\* the n most recently created documents of S, as the ids of a list: n or all of
\* them, each once, newest first, and none left out that is newer than one listed
MostRecent(docs, S, n) ==
    /\ Len(docs) = (IF Cardinality(S) < n THEN Cardinality(S) ELSE n)
    /\ \A k \in 1..Len(docs) : docs[k] \in S
    /\ \A k \in 1..Len(docs), l \in 1..Len(docs) : k # l => docs[k] # docs[l]
    /\ \A k \in 1..Len(docs), l \in 1..Len(docs) :
          k < l => monuments[docs[k]].createdAt >= monuments[docs[l]].createdAt
    /\ \A m \in S : (\A k \in 1..Len(docs) : docs[k] # m) =>
          \A k \in 1..Len(docs) : monuments[m].createdAt <= monuments[docs[k]].createdAt

\* C10 as stated: latest3 answers with the min(3, N) most recently created
\* monuments, whatever their status.
C10_LatestRegardlessOfStatus ==
    latest3.status = 200 => MostRecent(latest3.body, DOMAIN monuments, 3)

\* C10 amended: latest3 answers with the min(3, V) most recently created
\* monuments among the V verified ones (status 1), newest first; an unverified
\* monument is never listed.
C10_LatestVerifiedOnly ==
    latest3.status = 200 =>
        /\ MostRecent(latest3.body, {i \in DOMAIN monuments : monuments[i].status = 1}, 3)
        /\ \A k \in 1..Len(latest3.body) : monuments[latest3.body[k]].status = 1

\* the store of five of the specification: status 1,0,1,1,0 at increasing times
C10_Witness ==
    /\ DOMAIN monuments = 1..5
    /\ \A i \in 1..5 : monuments[i].createdAt = i
    /\ <<monuments[1].status, monuments[2].status, monuments[3].status,
         monuments[4].status, monuments[5].status>> = <<1, 0, 1, 1, 0>>
    /\ latest3 = [status |-> 200, body |-> <<4, 3, 1>>]

\* C11 as stated: GET /public/:id answers not-found when the monument id does not
\* resolve, 500 when the monument resolves and its owner does not, and the
\* composite {monument, userName} only when both resolve (a database call that
\* itself rejects is the 500 of the catch block).
C11_GetOneNotFoundOrComposite ==
    (getOne.pc = "done" /\ getOne.error # ErrDb) =>
        /\ getOne.id \notin DOMAIN monuments => getOne.status = 404
        /\ (getOne.id \in DOMAIN monuments
              /\ monuments[getOne.id].user \notin DOMAIN users) => getOne.status = 500
        /\ (getOne.id \in DOMAIN monuments
              /\ monuments[getOne.id].user \in DOMAIN users) =>
                /\ getOne.status = 200
                /\ getOne.body = <<[monument |-> monuments[getOne.id],
                                    userName |-> users[monuments[getOne.id].user].name]>>
        /\ getOne.status # 200 => getOne.body = <<>>

\* a component that is a decimal number as a whole, white space around it aside
IsNumeric(c) ==
    /\ c # Undefined
    /\ LET t == TrimStart(c)
           n == ParseFloat(t)
       IN  /\ ~IsNaN(n)
           /\ \A i \in (Len(n) + 1)..Len(t) : t[i] = " "

\* C12 as stated: the Map is instantiated exactly when the location is non-empty
\* and is two numeric components "latitude,longitude"; it then receives the first
\* and the second component; the GOOGLE MAPS button is rendered in both cases.
C12_MapIffTwoNumericComponents ==
    view.rendered =>
        LET location == combinedData[1].monument.location
            parts == IF location = Undefined THEN <<>> ELSE Split(location)
            parses == /\ Truthy(location)
                      /\ Len(parts) = 2
                      /\ IsNumeric(parts[1])
                      /\ IsNumeric(parts[2])
        IN  /\ (view.map # <<>>) <=> parses
            /\ view.map # <<>> =>
                   view.map = <<[latitude |-> parts[1], longitude |-> parts[2]]>>
            /\ view.button

\* C13 as stated: after placeId has changed while requests were in flight, once
\* every outstanding response has arrived, whatever the order of arrival,
\* combinedData is the data of the current placeId.
C13_SettledDataIsOfCurrentPlace ==
    (/\ navigations > 0
     /\ \A i \in DOMAIN requests : requests[i].state = "fulfilled") =>
        combinedData = <<CombinedDataOf(placeId)>>
====
